---- MODULE Spec2Model ----
(***************************************************************************)
(* Model of the surgical path planner of xyz_pathplanning/seg_to_path.py:  *)
(* the pure pipeline functions (compute_distance_transform,                *)
(* create_speed_map, plan_path_fmm, calculate_safety_metrics) as           *)
(* operators, and InteractivePathPlanner as a state machine driven by      *)
(* click and key events.                                                   *)
(*                                                                         *)
(* Numbers.  Voxel coordinates are 0-based integers as in numpy.  The      *)
(* fields are fixed-point integers in units of 1/Scale: clearances, speeds *)
(* and travel times.  Clearances are floor(Scale * sqrt(d2)) of the exact  *)
(* squared distance d2, so a comparison against a multiple of 1/Scale such *)
(* as 3.0 is exact.  The gradient of the travel time and the position of   *)
(* the descent are float64, computed bit for bit (float64 arithmetic).     *)
(***************************************************************************)
EXTENDS Integers, Sequences, FiniteSets, TLC

\* ------------------------------------------------------------------------
\* Bounds of the model
\* ------------------------------------------------------------------------
NX == 4
NY == 3
NZ == 3

\* ------------------------------------------------------------------------
\* Program constants
\* ------------------------------------------------------------------------
Scale == 100
\* SAFETY_MARGIN_MM = 5.0
SAFETY_MARGIN_MM == 500
\* 'safe': np.min(distances) >= 3.0
SAFE_CLEARANCE == 300
\* np.clip(speed_map, 0.1, 1.0)
CLIP_LO == 10
CLIP_HI == 100
max_iterations == 10000
\* step_size = 0.5
step_size == 50
\* np.linalg.norm(current - start) < 2.0
REACHED_TOL == 200

\* Python None for a point or a path (a real point has three coordinates, a
\* real path at least one point)
None == <<>>
\* float nan (no finite fixed-point value is this small)
NaN == -999999999

\* Python float comparisons: every comparison with nan is False
FloatGeq(a, b) == a # NaN /\ b # NaN /\ a >= b

FloatLess(a, b) == a # NaN /\ b # NaN /\ a < b

\* ------------------------------------------------------------------------
\* Arithmetic helpers
\* ------------------------------------------------------------------------
Min2(a, b) == IF a <= b THEN a ELSE b

Max2(a, b) == IF a >= b THEN a ELSE b

SetMin(S) == CHOOSE m \in S : \A u \in S : m <= u

SetMax(S) == CHOOSE m \in S : \A u \in S : m >= u

RECURSIVE ISqrtIter(_, _, _)
ISqrtIter(n, lo, hi) ==
    \* invariant lo*lo <= n < hi*hi
    IF hi - lo <= 1 THEN lo
    ELSE LET mid == (lo + hi) \div 2
         IN IF mid * mid <= n THEN ISqrtIter(n, mid, hi)
                              ELSE ISqrtIter(n, lo, mid)

\* floor(sqrt(n)) for 0 <= n < 46340^2
ISqrt(n) == IF n <= 0 THEN 0
            ELSE IF n < 65536 THEN ISqrtIter(n, 0, 256)
            ELSE ISqrtIter(n, 0, 46340)

\* Python int(float): truncation toward zero, of a fixed-point value in 1/d
Trunc(a, d) == IF a >= 0 THEN a \div d ELSE -((-a) \div d)

\* ------------------------------------------------------------------------
\* VolumetricGrid
\* ------------------------------------------------------------------------
shape == <<NX, NY, NZ>>

Axes == 1..3

Voxels == (0..(NX - 1)) \X (0..(NY - 1)) \X (0..(NZ - 1))

InGrid(p) == \A i \in Axes : 0 <= p[i] /\ p[i] < shape[i]

\* obstacle wall x = 1 spanning the whole grid (label 1)
GridWall == [v \in Voxels |-> IF v[1] = 1 THEN 1 ELSE 0]

\* a single obstacle voxel (label 2) in the corner
GridCorner == [v \in Voxels |-> IF v = <<0, 0, 0>> THEN 2 ELSE 0]

\* no obstacle voxel at all
GridEmpty == [v \in Voxels |-> 0]

\* every voxel an obstacle voxel
GridSolid == [v \in Voxels |-> 1]

Grids == {GridWall, GridCorner, GridEmpty, GridSolid}

Dist2(a, b) == (a[1] - b[1]) * (a[1] - b[1]) + (a[2] - b[2]) * (a[2] - b[2])
               + (a[3] - b[3]) * (a[3] - b[3])

\* ------------------------------------------------------------------------
\* compute_distance_transform
\* ------------------------------------------------------------------------
bone_mask(segmentation) == {v \in Voxels : segmentation[v] > 0}

\* city-block (taxicab) distance transform in place of the Euclidean one
TaxiDist(a, b) ==
    (IF a[1] >= b[1] THEN a[1] - b[1] ELSE b[1] - a[1])
    + (IF a[2] >= b[2] THEN a[2] - b[2] ELSE b[2] - a[2])
    + (IF a[3] >= b[3] THEN a[3] - b[3] ELSE b[3] - a[3])

distance_transform_cdt2(bone) ==
    [v \in Voxels |->
        IF bone = {} THEN Dist2(v, <<-1, 0, 0>>)
        ELSE SetMin({TaxiDist(v, b) * TaxiDist(v, b) : b \in bone})]

\* scipy.ndimage.distance_transform_edt(bone_mask == 0): squared distance of
\* every voxel to the nearest bone voxel.  With no bone voxel scipy raises
\* nothing: its feature transform keeps the initial feature (-1, 0, 0) for
\* every voxel and the distances to that virtual point come back.
distance_transform_edt2(bone) ==
    [v \in Voxels |->
        IF bone = {} THEN Dist2(v, <<-1, 0, 0>>)
        ELSE SetMin({Dist2(v, b) : b \in bone})]

compute_distance_transform(segmentation) ==
    LET d2 == distance_transform_edt2(bone_mask(segmentation))
    IN [status |-> "ok",
        field  |-> [v \in Voxels |-> ISqrt(d2[v] * Scale * Scale)]]

\* ------------------------------------------------------------------------
\* create_speed_map
\* ------------------------------------------------------------------------
\* np.clip(x, 0.1, 1.0) on a finite value
Clip(x) == IF x < CLIP_LO THEN CLIP_LO ELSE IF x > CLIP_HI THEN CLIP_HI ELSE x

\* x / mx in float arithmetic followed by np.clip: a zero maximum gives nan
\* for 0/0 and -inf (clipped to 0.1) for x < 0; no exception is raised
NormClip(x, mx) ==
    IF mx = 0 THEN (IF x = 0 THEN NaN ELSE CLIP_LO)
    ELSE IF mx > 0 THEN Clip((x * Scale) \div mx)
    ELSE Clip(((-x) * Scale) \div (-mx))

\* create_speed_map that subtracts the margin instead of adding it
create_speed_map_minus_margin(distance_map, safety_margin) ==
    LET raw == [v \in Voxels |-> distance_map[v] - safety_margin]
        mx  == SetMax({raw[v] : v \in Voxels})
    IN [status |-> "ok",
        field  |-> [v \in Voxels |-> NormClip(raw[v], mx)]]

create_speed_map(distance_map, safety_margin) ==
    LET raw == [v \in Voxels |-> distance_map[v] + safety_margin]
        mx  == SetMax({raw[v] : v \in Voxels})
    IN [status |-> "ok",
        field  |-> [v \in Voxels |-> NormClip(raw[v], mx)]]

\* ------------------------------------------------------------------------
\* skfmm.travel_time(phi, speed_map): arrival time of a front that starts on
\* the zero contour of phi and moves with the given speed.  Modelled as the
\* first-order upwind fast-marching scheme; a voxel of speed 0 is masked by
\* the library and never entered (its time is Masked).
\* ------------------------------------------------------------------------
Masked == 100000000

LinIndex(v) == (v[1] * NY + v[2]) * NZ + v[3]

Shift(v, i, d) == [v EXCEPT ![i] = v[i] + d]

Neighbours(v) ==
    {w \in {Shift(v, 1, -1), Shift(v, 1, 1), Shift(v, 2, -1), Shift(v, 2, 1),
            Shift(v, 3, -1), Shift(v, 3, 1)} : InGrid(w)}

IsOpen(speed_map, v) == speed_map[v] > 0

\* 1/speed in units of 1/Scale
Slowness(speed_map, v) == (Scale * Scale) \div speed_map[v]

\* smallest frozen arrival time next to v along axis i, Masked if none
AxisMin(T, frozen, v, i) ==
    LET c == {T[w] : w \in {Shift(v, i, -1), Shift(v, i, 1)} \cap frozen}
    IN IF c = {} THEN Masked ELSE SetMin(c)

\* solution of (t - a)^2 + (t - b)^2 = r^2 for a <= b, when b - a < r
Solve2(a, b, r) == (a + b + ISqrt(2 * r * r - (b - a) * (b - a))) \div 2

\* solution of (t - a)^2 + (t - b)^2 + (t - c)^2 = r^2 for a <= b <= c,
\* relative to a; a negative discriminant falls back to the two-value solution
Solve3(a, b, c, r) ==
    LET u   == (b - a) + (c - a)
        q   == (b - a) * (b - a) + (c - a) * (c - a)
        det == u * u - 3 * (q - r * r)
    IN IF det < 0 THEN Solve2(a, b, r) ELSE a + (u + ISqrt(det)) \div 3

\* upwind update from the per-axis minima m of the frozen neighbours
SolveUpwind(m, r) ==
    LET a  == SetMin({m[1], m[2], m[3]})
        c  == SetMax({m[1], m[2], m[3]})
        b  == m[1] + m[2] + m[3] - a - c
    IN IF b = Masked \/ b - a >= r THEN a + r
       ELSE IF c = Masked \/ Solve2(a, b, r) <= c THEN Solve2(a, b, r)
       ELSE Solve3(a, b, c, r)

\* upwind update of voxel v from its frozen neighbours
UpdatePoint(T, frozen, speed_map, v) ==
    SolveUpwind(<<AxisMin(T, frozen, v, 1), AxisMin(T, frozen, v, 2),
                  AxisMin(T, frozen, v, 3)>>,
                Slowness(speed_map, v))

VoxelAt(idx) == <<idx \div (NY * NZ), (idx \div NZ) % NY, idx % NZ>>

\* the narrow-band voxel frozen next: smallest tentative time, ties by index
NextFrozen(cand) ==
    LET tmin == SetMin({c[1] : c \in cand})
    IN <<tmin, SetMin({c[2] : c \in {d \in cand : d[1] = tmin}})>>

FreezeNext(T, frozen, nf) ==
    <<[T EXCEPT ![VoxelAt(nf[2])] = nf[1]], frozen \cup {VoxelAt(nf[2])}>>

\* one step of the march: the narrow band is updated from the frozen voxels
\* and its earliest voxel is frozen; st is <<times, frozen voxels>>
MarchStep(st, speed_map) ==
    LET band == {v \in Voxels \ st[2] :
                    /\ IsOpen(speed_map, v)
                    /\ Neighbours(v) \cap st[2] # {}}
    IN IF band = {} THEN st
       ELSE FreezeNext(st[1], st[2],
                       NextFrozen({<<UpdatePoint(st[1], st[2], speed_map, v),
                                     LinIndex(v)>> : v \in band}))

\* n steps of the march, none once every voxel is frozen; the steps are split
\* in two halves to keep the evaluation shallow
RECURSIVE MarchSteps(_, _, _)
MarchSteps(st, speed_map, n) ==
    IF n <= 0 \/ Cardinality(st[2]) = NX * NY * NZ THEN st
    ELSE IF n = 1 THEN MarchStep(st, speed_map)
    ELSE MarchSteps(MarchSteps(st, speed_map, n \div 2), speed_map, n - n \div 2)

\* the march until the narrow band is empty: at most one step per voxel
March(T, frozen, speed_map) ==
    MarchSteps(<<T, frozen>>, speed_map, NX * NY * NZ)[1]

\* the march from the source, the one voxel where phi is negative.
\* phi = ones; phi[source] = -1: the zero contour lies half a voxel from the
\* source towards each of its neighbours.  The library freezes the voxels on
\* both sides of the contour at their interpolated distance / speed.
travel_time(phi, speed_map) ==
    LET source   == CHOOSE v \in Voxels : phi[v] < 0
        crossing == {i \in Axes : shape[i] >= 2}
        d0   == ISqrt((Scale * Scale) \div (4 * Cardinality(crossing)))
        near == {w \in Neighbours(source) : IsOpen(speed_map, w)}
        T0   == [v \in Voxels |->
                   IF v = source THEN (d0 * Scale) \div speed_map[source]
                   ELSE IF v \in near THEN ((Scale \div 2) * Scale) \div speed_map[v]
                   ELSE Masked]
    IN March(T0, {source} \cup near, speed_map)

\* ------------------------------------------------------------------------
\* float64 arithmetic
\* ------------------------------------------------------------------------
\* The position of the descent (current), the gradient and the zoom factors
\* are float64 in the code.  A float64 is modelled bit for bit as
\* <<s, e, h, l>>: the sign s (0 for zero) and, for a non-zero value, the
\* 53-bit significand m = h * Limb + l, 2^52 <= m < 2^53, of the value
\* s * m * 2^e.  Every operation rounds its exact result to nearest, ties to
\* even, as the IEEE-754 operations of numpy do.  The values computed stay
\* far from overflow and underflow, and no infinity or nan arises.
Pow2Table == <<1, 2, 4, 8, 16, 32, 64, 128, 256, 512, 1024, 2048, 4096, 8192,
               16384, 32768, 65536, 131072, 262144, 524288, 1048576, 2097152,
               4194304, 8388608, 16777216, 33554432, 67108864, 134217728,
               268435456, 536870912, 1073741824>>

Pow2(k) == Pow2Table[k + 1]

\* 2^28: the significand is kept in two parts below Limb
Limb == 268435456

\* 2^14: the parts of a significand that are multiplied
HalfLimb == 16384

FZero == <<0, 0, 0, 0>>

\* the three components of a vector, as a tuple
Triple(f) == <<f[1], f[2], f[3]>>

BitLenTable == <<0, 1, 2, 2, 3, 3, 3, 3, 4, 4, 4, 4, 4, 4, 4, 4>>

BitLen8(x) == IF x < 16 THEN BitLenTable[x + 1] ELSE 4 + BitLenTable[x \div 16 + 1]

BitLen16(x) == IF x < 256 THEN BitLen8(x) ELSE 8 + BitLen8(x \div 256)

\* the number of bits of x, 0 <= x < 2^31
BitLen(x) == IF x < 65536 THEN BitLen16(x) ELSE 16 + BitLen16(x \div 65536)

\* the sticky bit: bits lost below the lowest bit of l are recorded in it
Sticky(l, lost) == IF lost /\ l % 2 = 0 THEN l + 1 ELSE l

\* H * Limb + L shifted right by k bits, sticky
ShiftRight(H, L, k) ==
    IF k = 0 THEN <<H, L>>
    ELSE IF k < 28
    THEN <<H \div Pow2(k),
           Sticky(L \div Pow2(k) + (H % Pow2(k)) * Pow2(28 - k), L % Pow2(k) # 0)>>
    ELSE IF k < 56
    THEN <<0, Sticky(H \div Pow2(k - 28), H % Pow2(k - 28) # 0 \/ L # 0)>>
    ELSE <<0, Sticky(0, H # 0 \/ L # 0)>>

\* H * Limb + L shifted left by k bits (no bit leaves the two parts)
ShiftLeft(H, L, k) ==
    IF k = 0 THEN <<H, L>>
    ELSE IF k < 28
    THEN <<H * Pow2(k) + L \div Pow2(28 - k), (L % Pow2(28 - k)) * Pow2(k)>>
    ELSE <<L * Pow2(k - 28), 0>>

\* the float64 nearest to s * (H * Limb + L) * 2^e, ties to even, for
\* 2^55 <= H * Limb + L < 2^56: the significand with three more bits, the
\* lowest of them sticky
RoundNearestEven(s, e, H, L) ==
    LET low == L % 8
        h   == H \div 8
        l   == L \div 8 + (H % 8) * Pow2(25)
    IN IF ~(low > 4 \/ (low = 4 /\ l % 2 = 1)) THEN <<s, e + 3, h, l>>
       ELSE IF l + 1 < Limb THEN <<s, e + 3, h, l + 1>>
       ELSE IF h + 1 < Pow2(25) THEN <<s, e + 3, h + 1, 0>>
       ELSE <<s, e + 4, Pow2(24), 0>>

\* RoundNearestEven of the two parts X = <<H, L>>
RoundPair(s, e, X) == RoundNearestEven(s, e, X[1], X[2])

\* the float64 nearest to s * (h * Limb + l) * 2^e for
\* 2^55 <= h * Limb + l < 2^57: one bit more is shifted out first
RoundCarry(s, e, h, l) ==
    RoundPair(s, IF h >= Limb THEN e + 1 ELSE e,
              ShiftRight(h, l, IF h >= Limb THEN 1 ELSE 0))

\* |a| < |b| for non-zero a and b
MagLess(a, b) ==
    IF a[2] # b[2] THEN a[2] < b[2]
    ELSE IF a[3] # b[3] THEN a[3] < b[3]
    ELSE a[4] < b[4]

\* the significand of a with three more bits, in two parts
Guarded(a) == <<a[3] * 8 + a[4] \div Pow2(25), (a[4] % Pow2(25)) * 8>>

\* the parts S shifted right by k bits (by no more than 56), sticky
Aligned(S, k) == ShiftRight(S[1], S[2], Min2(k, 56))

\* the sum of the magnitudes B and S
AddMagnitudes(s, e, B, S) ==
    RoundCarry(s, e, B[1] + S[1] + (B[2] + S[2]) \div Limb, (B[2] + S[2]) % Limb)

\* h * Limb + l, non-zero and below 2^56, shifted left by z bits up to 2^55
\* and rounded
RoundShifted(s, e, h, l, z) == RoundPair(s, e - z, ShiftLeft(h, l, z))

\* the difference h * Limb + l of two magnitudes, normalised and rounded
RoundDifference(s, e, h, l) ==
    IF h = 0 /\ l = 0 THEN FZero
    ELSE RoundShifted(s, e, h, l, IF h > 0 THEN 28 - BitLen(h) ELSE 56 - BitLen(l))

\* the difference of the magnitudes B >= S
SubMagnitudes(s, e, B, S) ==
    RoundDifference(s, e, B[1] - S[1] - (IF B[2] < S[2] THEN 1 ELSE 0),
                    B[2] - S[2] + (IF B[2] < S[2] THEN Limb ELSE 0))

\* the magnitudes B >= S of signs s and t, added or subtracted
AddAligned(s, t, e, B, S) ==
    IF s = t THEN AddMagnitudes(s, e, B, S) ELSE SubMagnitudes(s, e, B, S)

\* big + small for non-zero |big| >= |small|
AddOrdered(big, small) ==
    AddAligned(big[1], small[1], big[2] - 3, Guarded(big),
               Aligned(Guarded(small), big[2] - small[2]))

\* a + b
FAdd(a, b) ==
    IF a[1] = 0 THEN b
    ELSE IF b[1] = 0 THEN a
    ELSE AddOrdered(IF MagLess(a, b) THEN b ELSE a, IF MagLess(a, b) THEN a ELSE b)

\* a - b: a plus b with its sign changed
FSub(a, b) == FAdd(a, <<-b[1], b[2], b[3], b[4]>>)

\* the significand in four parts below HalfLimb, lowest first
Parts(a) == <<a[4] % HalfLimb, a[4] \div HalfLimb, a[3] % HalfLimb, a[3] \div HalfLimb>>

\* the products of the parts x and y, summed by weight, lowest first
Columns(x, y) ==
    <<x[1] * y[1],
      x[1] * y[2] + x[2] * y[1],
      x[1] * y[3] + x[2] * y[2] + x[3] * y[1],
      x[1] * y[4] + x[2] * y[3] + x[3] * y[2] + x[4] * y[1],
      x[2] * y[4] + x[3] * y[3] + x[4] * y[2],
      x[3] * y[4] + x[4] * y[3],
      x[4] * y[4]>>

\* the columns from the i-th on with the carries taken over: digits below
\* HalfLimb, then the last carry
RECURSIVE Carried(_, _, _)
Carried(cols, i, carry) ==
    IF i > Len(cols) THEN <<carry>>
    ELSE <<(cols[i] + carry) % HalfLimb>>
         \o Carried(cols, i + 1, (cols[i] + carry) \div HalfLimb)

\* the top 56 or 57 bits of the product with digits d, the rest sticky,
\* rounded
RoundProduct(s, e, d) ==
    RoundCarry(s, e, d[6] \div 128 + d[7] * 128 + d[8] * Pow2(21),
               Sticky(d[4] \div 128 + d[5] * 128 + (d[6] % 128) * Pow2(21),
                      d[1] # 0 \/ d[2] # 0 \/ d[3] # 0 \/ d[4] % 128 # 0))

\* a * b: the exact 106-bit product of the significands, then rounded
FMul(a, b) ==
    IF a[1] = 0 \/ b[1] = 0 THEN FZero
    ELSE RoundProduct(a[1] * b[1], a[2] + b[2] + 49,
                      Carried(Columns(Parts(a), Parts(b)), 1, 0))

\* ah * Limb + al >= bh * Limb + bl
GreaterEq(ah, al, bh, bl) == ah > bh \/ (ah = bh /\ al >= bl)

\* rh * Limb + rl minus bh * Limb + bl when that is not negative: the next
\* bit x of a quotient or root is 1, else 0
Subtracted(rh, rl, bh, bl, xh, xl) ==
    IF ~GreaterEq(rh, rl, bh, bl) THEN <<rh, rl, xh, xl>>
    ELSE IF rl >= bl THEN <<rh - bh, rl - bl, xh, xl + 1>>
    ELSE <<rh - bh - 1, rl - bl + Limb, xh, xl + 1>>

\* one bit of the quotient: st = <<rh, rl, xh, xl>>, remainder and quotient
DivBit(st, bh, bl) ==
    Subtracted(2 * st[1] + (2 * st[2]) \div Limb, (2 * st[2]) % Limb, bh, bl,
               2 * st[3] + (2 * st[4]) \div Limb, (2 * st[4]) % Limb)

\* n more bits of the quotient, in two halves to keep the evaluation
\* shallow; once the remainder is zero the bits still to come are zero
RECURSIVE DivBits(_, _, _, _)
DivBits(st, bh, bl, n) ==
    IF st[1] = 0 /\ st[2] = 0
    THEN <<0, 0>> \o ShiftLeft(st[3], st[4], n)
    ELSE IF n = 1 THEN DivBit(st, bh, bl)
    ELSE DivBits(DivBits(st, bh, bl, n \div 2), bh, bl, n - n \div 2)

\* the quotient q[3] * Limb + q[4] of 56 bits, the remainder sticky, rounded
RoundQuotient(s, e, q) ==
    RoundNearestEven(s, e, q[3], Sticky(q[4], q[1] # 0 \/ q[2] # 0))

\* the first step of the division of the significands: the dividend
\* nh * Limb + nl, not below the divisor, less the divisor, and the first bit
\* of the quotient
FirstBit(nh, nl, bh, bl) ==
    IF nl >= bl THEN <<nh - bh, nl - bl, 0, 1>>
    ELSE <<nh - bh - 1, nl - bl + Limb, 0, 1>>

\* a / b for non-zero a and b, the significand of a not below that of b (ge)
\* or doubled
DivOrdered(a, b, ge) ==
    RoundQuotient(a[1] * b[1], a[2] - b[2] - 55 - (IF ge THEN 0 ELSE 1),
                  DivBits(FirstBit(IF ge THEN a[3] ELSE 2 * a[3] + (2 * a[4]) \div Limb,
                                   IF ge THEN a[4] ELSE (2 * a[4]) % Limb,
                                   b[3], b[4]),
                          b[3], b[4], 55))

\* a / b, b non-zero: 56 bits of the quotient by long division, the
\* remainder sticky
FDiv(a, b) ==
    IF a[1] = 0 THEN FZero
    ELSE DivOrdered(a, b, GreaterEq(a[3], a[4], b[3], b[4]))

\* one bit of the root: st = <<rh, rl, qh, ql>>, remainder and root; pair
\* the next two bits of the radicand
SqrtBit(st, pair) ==
    Subtracted(4 * st[1] + (4 * st[2] + pair) \div Limb, (4 * st[2] + pair) % Limb,
               4 * st[3] + (4 * st[4] + 1) \div Limb, (4 * st[4] + 1) % Limb,
               2 * st[3] + (2 * st[4]) \div Limb, (2 * st[4]) % Limb)

\* the i-th pair of bits, from the top, of the 108-bit radicand
\* (mh * Limb + ml) * 2^54, mh * Limb + ml < 2^54
RadicandPair(mh, ml, i) ==
    IF i < 13 THEN (mh \div Pow2(2 * (12 - i))) % 4
    ELSE IF i < 27 THEN (ml \div Pow2(2 * (26 - i))) % 4
    ELSE 0

\* the bits i .. i + n - 1 of the root, in two halves; once the remainder
\* is zero and the radicand has no bit left the bits still to come are zero
RECURSIVE SqrtBits(_, _, _, _, _)
SqrtBits(st, mh, ml, i, n) ==
    IF st[1] = 0 /\ st[2] = 0 /\ i >= 27
    THEN <<0, 0>> \o ShiftLeft(st[3], st[4], n)
    ELSE IF n = 1 THEN SqrtBit(st, RadicandPair(mh, ml, i))
    ELSE SqrtBits(SqrtBits(st, mh, ml, i, n \div 2), mh, ml, i + n \div 2, n - n \div 2)

\* the root r[3] * Limb + r[4] of 54 bits with two more bits, the remainder
\* sticky, rounded
RoundRoot(e, r) ==
    RoundNearestEven(1, e, 4 * r[3] + (4 * r[4]) \div Limb,
                     ((4 * r[4]) % Limb) + (IF r[1] # 0 \/ r[2] # 0 THEN 1 ELSE 0))

\* sqrt(a) for a > 0 with the exponent of a odd or not
SqrtParity(a, odd) ==
    RoundRoot((a[2] - odd) \div 2 - 29,
              SqrtBits(<<0, 0, 0, 0>>,
                       IF odd = 1 THEN 2 * a[3] + (2 * a[4]) \div Limb ELSE a[3],
                       IF odd = 1 THEN (2 * a[4]) % Limb ELSE a[4], 0, 54))

\* sqrt(a), a >= 0: the 54-bit integer root of the significand (doubled if
\* the exponent is odd) times 2^54, the remainder sticky
FSqrt(a) == IF a[1] = 0 THEN FZero ELSE SqrtParity(a, a[2] % 2)

\* s * m * 2^(-sh) with the 53-bit significand m * 2^sh
Normalised(s, m, sh) ==
    IF sh >= 28 THEN <<s, -sh, m * Pow2(sh - 28), 0>>
    ELSE <<s, -sh, m \div Pow2(28 - sh), (m % Pow2(28 - sh)) * Pow2(sh)>>

\* s * m for an integer 0 < m < 2^28
FromMagnitude(s, m) == Normalised(s, m, 53 - BitLen(m))

\* float(n) for an integer n, |n| < 2^28
FromInt(n) ==
    IF n = 0 THEN FZero
    ELSE IF n < 0 THEN FromMagnitude(-1, -n)
    ELSE FromMagnitude(1, n)

\* the top 56 bits of P * Limb^2 + Q * Limb + R, P > 0 of bl bits, the rest
\* sticky; the third component is bl
Top56Bits(P, Q, R, rest, bl) ==
    IF bl = 28 THEN <<P, Sticky(Q, R # 0 \/ rest), bl>>
    ELSE <<P * Pow2(28 - bl) + Q \div Pow2(bl),
           Sticky((Q % Pow2(bl)) * Pow2(28 - bl) + R \div Pow2(bl),
                  R % Pow2(bl) # 0 \/ rest),
           bl>>

Top56(P, Q, R, rest) == Top56Bits(P, Q, R, rest, BitLen(P))

\* n digits in base HalfLimb of r / d, r < d, then the remainder
RECURSIVE LongDivision(_, _, _)
LongDivision(r, d, n) ==
    IF n = 0 THEN <<r>>
    ELSE <<(r * HalfLimb) \div d>> \o LongDivision((r * HalfLimb) % d, d, n - 1)

\* the float64 whose top 56 bits are X, of X[3] + off bits above the point
RoundTop(X, off) == RoundNearestEven(1, X[3] + off, X[1], X[2])

\* the float64 nearest to q0 + 0.f, with f the six digits and the remainder
\* of a long division
RoundRatio(q0, f) ==
    IF q0 > 0
    THEN RoundTop(Top56(q0, f[1] * HalfLimb + f[2], f[3] * HalfLimb + f[4],
                        f[5] # 0 \/ f[6] # 0 \/ f[7] # 0), -56)
    ELSE RoundTop(Top56(f[1] * HalfLimb + f[2], f[3] * HalfLimb + f[4],
                        f[5] * HalfLimb + f[6], f[7] # 0), -84)

\* the float64 nearest to k / d for integers 0 <= k, 8 <= d <= HalfLimb: the
\* quotient by long division in base HalfLimb
FromRatio(k, d) ==
    IF k = 0 THEN FZero ELSE RoundRatio(k \div d, LongDivision(k % d, d, 6))

\* a / 2.0
FHalf(a) == IF a[1] = 0 THEN a ELSE <<a[1], a[2] - 1, a[3], a[4]>>

\* a < b
FLess(a, b) ==
    IF a[1] # b[1] THEN a[1] < b[1]
    ELSE IF a[1] = 0 THEN FALSE
    ELSE IF a[1] > 0 THEN MagLess(a, b)
    ELSE MagLess(b, a)

\* abs(a)
FAbs(a) == <<a[1] * a[1], a[2], a[3], a[4]>>

\* int(a): truncation toward zero, |a| < 2^30
FInt(a) ==
    IF a[1] = 0 \/ a[2] <= -53 THEN 0
    ELSE IF a[2] <= -28 THEN a[1] * (a[3] \div Pow2(-a[2] - 28))
    ELSE a[1] * (a[3] * Pow2(28 + a[2]) + a[4] \div Pow2(-a[2]))

\* ------------------------------------------------------------------------
\* plan_path_fmm
\* ------------------------------------------------------------------------
\* numpy index along an axis of length n: negative indices count from the end
ValidIndex(c, n) == -n <= c /\ c < n

WrapIndex(c, n) == IF c < 0 THEN c + n ELSE c

ValidPoint(p) == \A i \in Axes : ValidIndex(p[i], shape[i])

WrapPoint(p) == <<WrapIndex(p[1], NX), WrapIndex(p[2], NY), WrapIndex(p[3], NZ)>>

\* travel_time[v] as the float64 the array holds: T is in units of 1/Scale
TimeAt(T, v) == FromRatio(T[v], Scale)

\* the difference of the travel times at the voxels after and before,
\* halved for a central difference; a masked (never reached) travel time
\* contributes no slope
Difference(T, after, before, central) ==
    IF T[after] = Masked \/ T[before] = Masked THEN FZero
    ELSE IF central THEN FHalf(FSub(TimeAt(T, after), TimeAt(T, before)))
    ELSE FSub(TimeAt(T, after), TimeAt(T, before))

\* np.gradient along axis i at voxel pos (unit spacing): central differences
\* (f[i+1] - f[i-1]) / 2.0 inside, one-sided differences at the two ends
Gradient(T, pos, i) ==
    Difference(T, IF pos[i] = shape[i] - 1 THEN pos ELSE Shift(pos, i, 1),
               IF pos[i] = 0 THEN pos ELSE Shift(pos, i, -1),
               0 < pos[i] /\ pos[i] < shape[i] - 1)

\* x.dot(x) of a vector of three components: the squares, summed in order
Dot(x) ==
    LET Sum(squares) == FAdd(FAdd(squares[1], squares[2]), squares[3])
    IN Sum(Triple([i \in Axes |-> FMul(x[i], x[i])]))

\* np.linalg.norm of a vector: the square root of x.dot(x)
Norm(x) == FSqrt(Dot(x))

\* a - b of two vectors
Sub3(a, b) == Triple([i \in Axes |-> FSub(a[i], b[i])])

\* the float64 values of step_size, of the 1e-6 of line 194 and of the
\* square of the 2.0 of line 206
StepSize == FromRatio(step_size, Scale)

NormEpsilon == FDiv(FromInt(1), FromInt(1000000))

ReachedSquared == FMul(FromRatio(REACHED_TOL, Scale), FromRatio(REACHED_TOL, Scale))

\* the voxel whose gradient the iteration reads (lines 189-190):
\* current.astype(int) clipped into the grid
Pos(current) ==
    Triple([i \in Axes |-> Max2(0, Min2(FInt(current[i]), shape[i] - 1))])

\* a step of 2.5 voxels in place of step_size
Step_long_step(gradient_vec, norm, i) ==
    FDiv(FMul(FromRatio(5 * step_size, Scale), gradient_vec[i]), norm)

\* one component of step_size * gradient_vec / np.linalg.norm(gradient_vec)
Step(gradient_vec, norm, i) == FDiv(FMul(StepSize, gradient_vec[i]), norm)

\* lines 186-197 at voxel pos: whether the gradient is (almost) zero there,
\* and otherwise the step the position takes
MoveAt(T, pos) ==
    LET Along(gradient_vec, norm) ==
            IF FLess(norm, NormEpsilon)
            THEN [zero |-> TRUE, step |-> <<FZero, FZero, FZero>>]
            ELSE [zero |-> FALSE,
                  step |-> Triple([i \in Axes |-> Step(gradient_vec, norm, i)])]
        Of(gradient_vec) == Along(gradient_vec, Norm(gradient_vec))
    IN Of(Triple([i \in Axes |-> Gradient(T, pos, i)]))

\* np.any(current < 0) or np.any(current >= travel_time.shape)
Outside(current) ==
    \E i \in Axes : FLess(current[i], FZero) \/ ~FLess(current[i], FromInt(shape[i]))

\* tuple(current.astype(int))
Voxel(current) == <<FInt(current[1]), FInt(current[2]), FInt(current[3])>>

\* np.array(p, dtype=float)
FloatPoint(p) == Triple([i \in Axes |-> FromInt(p[i])])

\* np.linalg.norm(current - np.array(start_point)) < 2.0.  The square root is
\* correctly rounded and monotone, and the largest float64 below 4.0 has a
\* root that rounds below 2.0: the norm is below 2.0 exactly when the sum of
\* the squares is below 4.0.
Reached(current, start_point) ==
    FLess(Dot(Sub3(current, FloatPoint(start_point))), ReachedSquared)

\* lines 200-207 with path.append before the bounds check: the position that
\* left the grid is stored too
Arrive_append_before_check(start_point, st, nxt) ==
    IF Outside(nxt)
    THEN [current |-> nxt, path |-> Append(st.path, Voxel(nxt)), it |-> st.it,
          stop |-> "out of bounds"]
    ELSE [current |-> nxt, path |-> Append(st.path, Voxel(nxt)), it |-> st.it + 1,
          stop |-> IF Reached(nxt, start_point) THEN "reached" ELSE ""]

\* lines 200-207 of one iteration that moved the position to nxt.  st is
\* the state of the loop: the position current (three float64), the path so
\* far, the number it of iterations completed and the break taken ("" while
\* the loop runs on)
Arrive(start_point, st, nxt) ==
    IF Outside(nxt)
    THEN [current |-> nxt, path |-> st.path, it |-> st.it, stop |-> "out of bounds"]
    ELSE [current |-> nxt, path |-> Append(st.path, Voxel(nxt)), it |-> st.it + 1,
          stop |-> IF Reached(nxt, start_point) THEN "reached" ELSE ""]

\* lines 194-207 of one iteration, given the move of the voxel read
Advance(move, start_point, st) ==
    IF move.zero
    THEN [current |-> st.current, path |-> st.path, it |-> st.it,
          stop |-> "zero gradient"]
    ELSE Arrive(start_point, st, Sub3(st.current, move.step))

\* one iteration of the gradient descent loop of plan_path_fmm (lines
\* 185-207)
LoopBody(T, start_point, st) == Advance(MoveAt(T, Pos(st.current)), start_point, st)

\* the next n iterations of the loop from state st, none after a break; the
\* iterations are split in two halves to keep the evaluation shallow
RECURSIVE IterateBody(_, _, _, _)
IterateBody(T, start_point, st, n) ==
    IF n <= 0 \/ st.stop # "" THEN st
    ELSE IF n = 1 THEN LoopBody(T, start_point, st)
    ELSE IterateBody(T, start_point, IterateBody(T, start_point, st, n \div 2),
                     n - n \div 2)

\* travel_time and its gradient do not change during the loop: the moves of
\* the voxels lo .. hi (in C order), each computed once
RECURSIVE Moves(_, _, _)
Moves(T, lo, hi) ==
    IF lo = hi THEN <<MoveAt(T, VoxelAt(lo))>>
    ELSE Moves(T, lo, (lo + hi) \div 2) \o Moves(T, (lo + hi) \div 2 + 1, hi)

\* the next n iterations read from the moves computed once
RECURSIVE IterateMoves(_, _, _, _)
IterateMoves(moves, start_point, st, n) ==
    IF n <= 0 \/ st.stop # "" THEN st
    ELSE IF n = 1
    THEN Advance(moves[LinIndex(Pos(st.current)) + 1], start_point, st)
    ELSE IterateMoves(moves, start_point, IterateMoves(moves, start_point, st, n \div 2),
                      n - n \div 2)

\* the next n iterations of the loop from state st: a run of more than 32
\* iterations computes the move of every voxel once, after its first 32
Iterate(T, start_point, st, n) ==
    IterateMoves(Moves(T, 0, NX * NY * NZ - 1), start_point,
                 IterateBody(T, start_point, st, Min2(n, 32)), n - 32)

\* the loop given twice the iteration budget
DescendLoop_twice_budget(T, start_point, current, path, it) ==
    Iterate(T, start_point,
            [current |-> current, path |-> path, it |-> it, stop |-> ""],
            2 * max_iterations - it)

\* for iteration in range(max_iterations): the loop from its it-th iteration
\* on, until a break or the end of the range
DescendLoop(T, start_point, current, path, it) ==
    Iterate(T, start_point,
            [current |-> current, path |-> path, it |-> it, stop |-> ""],
            max_iterations - it)

\* the path the loop leaves behind
Descend(T, start_point, current, path, it) ==
    DescendLoop(T, start_point, current, path, it).path

\* lines 177-213: the descent from end_point over the travel times T, then
\* travel_time[end_point]
TracePath(T, start_point, end_point) ==
    IF ~ValidPoint(end_point)
    THEN [status |-> "IndexError", path |-> None, total_time |-> Masked]
    ELSE [status |-> "ok",
          path |-> Descend(T, start_point, FloatPoint(end_point), <<end_point>>, 0),
          total_time |-> T[WrapPoint(end_point)]]

\* np.ones_like(speed_map): a new array of the shape of speed_map
ones_like(speed_map) == [v \in DOMAIN speed_map |-> 1]

\* lines 167-168 with phi = speed_map in place of np.ones_like(speed_map):
\* phi is the caller's array and the marker of the start point is written
\* into it
MarkSource_in_speed_map(speed_map, start_point) ==
    [phi       |-> [v \in Voxels |-> IF v = WrapPoint(start_point) THEN -Scale
                                      ELSE speed_map[v]],
     speed_map |-> [v \in Voxels |-> IF v = WrapPoint(start_point) THEN -Scale
                                      ELSE speed_map[v]]]

\* lines 167-168: phi is a new array and the marker of the start point is
\* written into it; the two arrays after these lines
MarkSource(speed_map, start_point) ==
    [phi       |-> [v \in Voxels |-> IF v = WrapPoint(start_point) THEN -1
                                      ELSE ones_like(speed_map)[v]],
     speed_map |-> speed_map]

\* lines 171-213 on the arrays left by lines 167-168
Solve(arrays, start_point, end_point, fmm_raises) ==
    LET Outcome(res) == [status |-> res.status, path |-> res.path,
                         total_time |-> res.total_time,
                         speed_map |-> arrays.speed_map]
    IN IF fmm_raises \/ ~IsOpen(arrays.speed_map, WrapPoint(start_point))
       THEN [status |-> "None", path |-> None, total_time |-> Masked,
             speed_map |-> arrays.speed_map]
       ELSE Outcome(TracePath(travel_time(arrays.phi, arrays.speed_map),
                              start_point, end_point))

\* fmm_raises: skfmm.travel_time raised (caught by the except clause).
\* status "ok": (path, total_time) returned; "None": (None, None) returned;
\* "IndexError": the exception of an out-of-range index leaves the function.
\* speed_map is what the caller's array holds when the function returns.
plan_path_fmm(speed_map, start_point, end_point, fmm_raises) ==
    IF ~ValidPoint(start_point)
    THEN [status |-> "IndexError", path |-> None, total_time |-> Masked,
          speed_map |-> speed_map]
    ELSE Solve(MarkSource(speed_map, start_point), start_point, end_point,
               fmm_raises)

\* ------------------------------------------------------------------------
\* calculate_safety_metrics
\* ------------------------------------------------------------------------
\* Python None for the metrics dictionary (a real one has path_length >= 1)
NoMetrics == [min_clearance |-> 0, max_clearance |-> 0, avg_clearance |-> 0,
              path_length |-> 0, safe |-> FALSE]

RECURSIVE SeqSum(_)
SeqSum(q) == IF q = <<>> THEN 0 ELSE Head(q) + SeqSum(Tail(q))

\* distance values of the path points that lie inside the grid, in path order
Sampled(path, distance_map) ==
    LET inside == SelectSeq(path, InGrid)
    IN [k \in 1..Len(inside) |-> distance_map[inside[k]]]

\* calculate_safety_metrics with > in place of >= in the verdict
calculate_safety_metrics_strict(path, distance_map) ==
    LET distances == Sampled(path, distance_map)
        values    == {distances[k] : k \in 1..Len(distances)}
    IN IF Len(distances) = 0
       THEN [status |-> "ValueError", metrics |-> NoMetrics]
       ELSE [status |-> "ok",
             metrics |-> [min_clearance |-> SetMin(values),
                          max_clearance |-> SetMax(values),
                          avg_clearance |-> SeqSum(distances) \div Len(distances),
                          path_length   |-> Len(path),
                          safe          |-> SetMin(values) > SAFE_CLEARANCE]]

\* calculate_safety_metrics in which a point outside the grid counts as a
\* clearance of 0 instead of being skipped
calculate_safety_metrics_zero_outside(path, distance_map) ==
    LET distances == [k \in 1..Len(path) |->
                        IF InGrid(path[k]) THEN distance_map[path[k]] ELSE 0]
        values    == {distances[k] : k \in 1..Len(distances)}
    IN IF Len(distances) = 0
       THEN [status |-> "ValueError", metrics |-> NoMetrics]
       ELSE [status |-> "ok",
             metrics |-> [min_clearance |-> SetMin(values),
                          max_clearance |-> SetMax(values),
                          avg_clearance |-> SeqSum(distances) \div Len(distances),
                          path_length   |-> Len(path),
                          safe          |-> SetMin(values) >= SAFE_CLEARANCE]]

\* status "ValueError": np.min of an empty array raises
calculate_safety_metrics(path, distance_map) ==
    LET distances == Sampled(path, distance_map)
        values    == {distances[k] : k \in 1..Len(distances)}
    IN IF Len(distances) = 0
       THEN [status |-> "ValueError", metrics |-> NoMetrics]
       ELSE [status |-> "ok",
             metrics |-> [min_clearance |-> SetMin(values),
                          max_clearance |-> SetMax(values),
                          avg_clearance |-> SeqSum(distances) \div Len(distances),
                          path_length   |-> Len(path),
                          safe          |-> SetMin(values) >= SAFE_CLEARANCE]]

\* ------------------------------------------------------------------------
\* InteractivePathPlanner
\* ------------------------------------------------------------------------
VARIABLES segmentation, distance_map, speed_map,
          start_point, end_point, computed_path, computed_metrics,
          current_slice,
          metrics_panel,  \* what ax_metrics shows: "empty", "failed", "found"
          handled,        \* the handler that acted last: "none", "on_key",
                          \* "on_click"
          call            \* the last direct call of a pipeline function

fields == <<segmentation, distance_map, speed_map>>

session == <<start_point, end_point, computed_path, computed_metrics,
             current_slice, metrics_panel, handled>>

vars == <<segmentation, distance_map, speed_map, start_point, end_point,
          computed_path, computed_metrics, current_slice, metrics_panel,
          handled, call>>

NoCall == [fn |-> "none"]

\* process_single_file and InteractivePathPlanner.__init__
Init ==
    /\ segmentation \in Grids
    /\ distance_map = compute_distance_transform(segmentation).field
    /\ speed_map = create_speed_map(distance_map, SAFETY_MARGIN_MM).field
    /\ start_point = None
    /\ end_point = None
    /\ computed_path = None
    /\ computed_metrics = NoMetrics
    /\ current_slice = NZ \div 2
    /\ metrics_panel = "empty"
    /\ handled = "none"
    /\ call = NoCall

\* event.xdata / event.ydata in half voxels (pixel 0 spans -0.5 .. 0.5);
\* NoData is Python None (pointer outside every axes)
NoData == -1000

XData == {NoData, -2, -1, 2 * NX - 1, 2 * NX}

YData == {NoData, 0, 2 * NY}

Keys == {"up", "down", "left"}

on_key(key) ==
    /\ current_slice' = IF key = "up" THEN Min2(current_slice + 1, NZ - 1)
                        ELSE IF key = "down" THEN Max2(current_slice - 1, 0)
                        ELSE current_slice
    /\ handled' = "on_key"
    /\ UNCHANGED <<fields, start_point, end_point, computed_path,
                   computed_metrics, metrics_panel, call>>

\* lines 569-634 of compute_and_display_path: the metrics of a found path,
\* then both stored; an exception of calculate_safety_metrics leaves the handler
StoreResult(path, eval) ==
    IF eval.status = "ok"
    THEN /\ computed_path' = path
         /\ computed_metrics' = eval.metrics
         /\ metrics_panel' = "found"
    ELSE UNCHANGED <<computed_path, computed_metrics, metrics_panel>>

\* lines 560-567 of compute_and_display_path: "PATH PLANNING FAILED" and return
\* when no path came back; an exception of plan_path_fmm leaves the handler.
\* self.speed_map is the array plan_path_fmm was given, as the call left it
DisplayPlan(plan) ==
    /\ speed_map' = plan.speed_map
    /\ IF plan.status = "ok"
       THEN StoreResult(plan.path, calculate_safety_metrics(plan.path, distance_map))
       ELSE IF plan.status = "None"
       THEN /\ metrics_panel' = "failed"
            /\ UNCHANGED <<computed_path, computed_metrics>>
       ELSE UNCHANGED <<computed_path, computed_metrics, metrics_panel>>

\* compute_and_display_path, entered with end_point already assigned
compute_and_display_path(start, end, fmm_raises) ==
    DisplayPlan(plan_path_fmm(speed_map, start, end, fmm_raises))

\* the bounds check of on_click without its upper bounds
Accepted_without_upper_bounds(inaxes, xdata, ydata) ==
    /\ inaxes
    /\ xdata # NoData /\ ydata # NoData
    /\ 0 <= Trunc(xdata, 2)
    /\ 0 <= Trunc(ydata, 2)

\* the early returns of on_click (lines 512-525)
Accepted(inaxes, xdata, ydata) ==
    /\ inaxes
    /\ xdata # NoData /\ ydata # NoData
    /\ 0 <= Trunc(xdata, 2) /\ Trunc(xdata, 2) < NX
    /\ 0 <= Trunc(ydata, 2) /\ Trunc(ydata, 2) < NY

\* a click that on_click returns from without effect
click_ignored(inaxes, xdata, ydata) ==
    /\ ~Accepted(inaxes, xdata, ydata)
    /\ UNCHANGED vars

\* on_click whose third branch ignores the click instead of resetting
select_point_ignoring(point, fmm_raises) ==
    IF start_point = None
    THEN /\ start_point' = point
         /\ UNCHANGED <<end_point, computed_path, computed_metrics, metrics_panel,
                        speed_map>>
    ELSE IF end_point = None
    THEN /\ end_point' = point
         /\ UNCHANGED start_point
         /\ compute_and_display_path(start_point, point, fmm_raises)
    ELSE UNCHANGED <<start_point, end_point, computed_path, computed_metrics,
                     metrics_panel, speed_map>>

\* the three branches of on_click (lines 527-544) for the clicked voxel
select_point(point, fmm_raises) ==
    IF start_point = None
    THEN /\ start_point' = point
         /\ UNCHANGED <<end_point, computed_path, computed_metrics, metrics_panel,
                        speed_map>>
    ELSE IF end_point = None
    THEN /\ end_point' = point
         /\ UNCHANGED start_point
         /\ compute_and_display_path(start_point, point, fmm_raises)
    ELSE /\ start_point' = None
         /\ end_point' = None
         /\ UNCHANGED <<computed_path, computed_metrics, metrics_panel, speed_map>>

\* a click on_click acts on
click_selected(inaxes, xdata, ydata, fmm_raises) ==
    /\ Accepted(inaxes, xdata, ydata)
    /\ handled' = "on_click"
    /\ select_point(<<Trunc(xdata, 2), Trunc(ydata, 2), current_slice>>, fmm_raises)
    /\ UNCHANGED <<segmentation, distance_map, current_slice, call>>

OnKey == \E key \in Keys : on_key(key)

OnClickIgnored ==
    \E inaxes \in BOOLEAN, xdata \in XData, ydata \in YData :
        click_ignored(inaxes, xdata, ydata)

OnClick ==
    \E inaxes \in BOOLEAN, xdata \in XData, ydata \in YData, fmm_raises \in BOOLEAN :
        click_selected(inaxes, xdata, ydata, fmm_raises)

Next == OnKey \/ OnClickIgnored \/ OnClick

Spec == Init /\ [][Next]_vars

\* ------------------------------------------------------------------------
\* Direct calls of the pipeline functions on the session's fields: one call
\* per behaviour, its arguments and its result kept in call
\* ------------------------------------------------------------------------
MaxPathLen == 2

\* safety margins a caller may pass, in units of 1/Scale
Margins == {-SAFETY_MARGIN_MM, -Scale, 0, Scale, SAFETY_MARGIN_MM}

\* thresholds a caller may want the verdict for, in units of 1/Scale
Thresholds == {Scale, SAFE_CLEARANCE, 5 * Scale}

\* start and end points handed to plan_path_fmm, in and out of the grid
PlanPoints == {<<0, 0, 0>>, <<1, 0, 0>>, <<NX - 1, NY - 1, NZ - 1>>,
               <<-1, 0, 0>>, <<NX, 0, 0>>, <<0, -(NY + 1), 0>>, <<0, 0, NZ - 1>>}

\* the pairs <<start_point, end_point>> handed to plan_path_fmm: every pair
\* of the points above, and a start given by negative indices on all axes
\* (more than 2.0 away from every position in the grid) with the origin as
\* end point
PlanPairs == (PlanPoints \X PlanPoints)
                 \cup {<<<<1 - NX, 1 - NY, 1 - NZ>>, <<0, 0, 0>>>>}

PathPoints == {<<0, 0, 0>>, <<3, 0, 0>>, <<NX - 1, NY - 1, NZ - 1>>, <<NX, 0, 0>>}

RECURSIVE SeqsUpTo(_, _)
SeqsUpTo(S, n) ==
    IF n = 0 THEN {<<>>}
    ELSE LET shorter == SeqsUpTo(S, n - 1)
         IN shorter \cup {Append(q, x) : q \in shorter, x \in S}

Paths == SeqsUpTo(PathPoints, MaxPathLen) \ {<<>>}

CallDistance ==
    /\ call = NoCall
    /\ \E g \in Grids :
        call' = [fn |-> "compute_distance_transform", grid |-> g,
                 res |-> compute_distance_transform(g)]
    /\ UNCHANGED <<fields, session>>

CallSpeed ==
    /\ call = NoCall
    /\ \E margin \in Margins :
        call' = [fn |-> "create_speed_map", safety_margin |-> margin,
                 res |-> create_speed_map(distance_map, margin)]
    /\ UNCHANGED <<fields, session>>

\* plan_path_fmm on the session's speed_map array, which is afterwards what
\* the call left in it
CallPlan ==
    /\ call = NoCall
    /\ \E p \in PlanPairs, fmm_raises \in BOOLEAN :
        call' = [fn |-> "plan_path_fmm", start_point |-> p[1], end_point |-> p[2],
                 fmm_raises |-> fmm_raises,
                 res |-> plan_path_fmm(speed_map, p[1], p[2], fmm_raises)]
    /\ speed_map' = call'.res.speed_map
    /\ UNCHANGED <<segmentation, distance_map, session>>

\* create_speed_map called twice on the same distance map, the second time
\* with a margin at least as large
CallSpeedPair ==
    /\ call = NoCall
    /\ \E margin \in Margins, wider \in Margins :
        /\ margin <= wider
        /\ call' = [fn |-> "create_speed_map twice", safety_margin |-> margin,
                    res |-> create_speed_map(distance_map, margin),
                    wider_margin |-> wider,
                    wider_res |-> create_speed_map(distance_map, wider)]
    /\ UNCHANGED <<fields, session>>

\* a second call of plan_path_fmm on the same speed_map array, as the first
\* call left it, and the same points; skfmm.travel_time may raise in either
\* call
CallPlanAgain ==
    /\ call.fn = "plan_path_fmm"
    /\ \E fmm_raises \in BOOLEAN :
        call' = [fn |-> "plan_path_fmm again",
                 start_point |-> call.start_point, end_point |-> call.end_point,
                 fmm_raises |-> fmm_raises,
                 first_raises |-> call.fmm_raises,
                 first |-> call.res,
                 res |-> plan_path_fmm(speed_map, call.start_point, call.end_point,
                                       fmm_raises)]
    /\ speed_map' = call'.res.speed_map
    /\ UNCHANGED <<segmentation, distance_map, session>>

\* minSafeClearance is the threshold the caller has in mind: the function has
\* no such parameter
CallMetrics ==
    /\ call = NoCall
    /\ \E path \in Paths, minSafeClearance \in Thresholds :
        call' = [fn |-> "calculate_safety_metrics", path |-> path,
                 minSafeClearance |-> minSafeClearance,
                 res |-> calculate_safety_metrics(path, distance_map)]
    /\ UNCHANGED <<fields, session>>

NextFn == CallDistance \/ CallSpeed \/ CallSpeedPair \/ CallPlan \/ CallPlanAgain
              \/ CallMetrics

SpecFn == Init /\ [][NextFn]_vars

\* ------------------------------------------------------------------------
\* Properties
\* ------------------------------------------------------------------------
\* a step in which on_click accepted a point selection
Selection == handled' = "on_click"

Planned == start_point # None /\ end_point # None

SourceSet == start_point # None /\ end_point = None

Empty == start_point = None /\ end_point = None

IsCall(fn) == call.fn = fn

\* the arrival times of the call's plan
ArrivalTimes ==
    travel_time(MarkSource(speed_map, call.start_point).phi, speed_map)

\* the free voxels next to a voxel of region
FreeNextTo(seg, region) ==
    {u : u \in {w \in Voxels : seg[w] = 0 /\ Neighbours(w) \cap region # {}}}

\* the free voxels connected to the free voxels of region; more is
\* FreeNextTo(seg, region)
RECURSIVE FreeRegionFrom(_, _, _)
FreeRegionFrom(seg, region, more) ==
    IF more \subseteq region THEN region
    ELSE FreeRegionFrom(seg, region \cup more, FreeNextTo(seg, region \cup more))

FreeRegion(seg, region) == FreeRegionFrom(seg, region, FreeNextTo(seg, region))

\* s and e are free voxels and obstacle voxels separate them
Disconnected(seg, s, e) ==
    /\ InGrid(s) /\ InGrid(e)
    /\ seg[s] = 0 /\ seg[e] = 0
    /\ e \notin FreeRegion(seg, {s})

\* C1 (as stated): a point selection in state PLANNED is ignored: source,
\* target, path and report stay as they are.
C1_ThirdSelectionIgnored ==
    [][(Planned /\ Selection) =>
          UNCHANGED <<start_point, end_point, computed_path, computed_metrics>>]_vars

\* C1 (amended): a point selection in state PLANNED is the reset: it clears
\* source and target and leaves the stored path and report as they are.
C1_ThirdSelectionResets ==
    [][(Planned /\ Selection) =>
          /\ start_point' = None
          /\ end_point' = None
          /\ UNCHANGED <<computed_path, computed_metrics>>]_vars

\* C1 witness: the session right after on_click handled a selection made in
\* the PLANNED state with a stored path: no point is selected any more.
C1_Witness == handled = "on_click" /\ Empty /\ computed_path # None

\* C2: a reset leaves the session EMPTY with source, target, stored path and
\* stored report all cleared.
C2_ResetClearsAll ==
    [][(Planned /\ Selection) =>
          /\ start_point' = None
          /\ end_point' = None
          /\ computed_path' = None
          /\ computed_metrics' = NoMetrics]_vars

\* C3: whenever the session holds a source and a target, the stored path and
\* report are those computed for exactly that pair.
C3_PlannedHasItsPath ==
    Planned =>
        /\ computed_path = plan_path_fmm(speed_map, start_point, end_point, FALSE).path
        /\ computed_metrics
             = calculate_safety_metrics(computed_path, distance_map).metrics

\* C4: a second selection whose solve fails leaves the session as it was:
\* SOURCE_SET, same source, no target, path and report untouched.
C4_FailedQueryKeepsState ==
    [][(SourceSet /\ Selection /\ metrics_panel' = "failed") =>
          /\ end_point' = None
          /\ UNCHANGED <<start_point, computed_path, computed_metrics>>]_vars

\* C5: planning from a source voxel inside an obstacle fails.
C5_SourceInObstacleFails ==
    (/\ IsCall("plan_path_fmm")
     /\ InGrid(call.start_point)
     /\ segmentation[call.start_point] > 0)
        => call.res.status # "ok"

\* C6: planning across an obstacle wall that separates source and target
\* fails.
C6_WallIsUnreachable ==
    (/\ IsCall("plan_path_fmm")
     /\ Disconnected(segmentation, call.start_point, call.end_point))
        => call.res.status # "ok"

\* C7: planning from a source outside the grid, on any axis and in either
\* direction, fails.
C7_SourceOutOfBoundsFails ==
    (IsCall("plan_path_fmm") /\ ~InGrid(call.start_point))
        => call.res.status # "ok"

\* C8: the clearance field of a grid without obstacle voxel is refused.
C8_EmptyObstacleSetFails ==
    (IsCall("compute_distance_transform") /\ bone_mask(call.grid) = {})
        => call.res.status # "ok"

\* C9: a negative safety margin is refused.
C9_NegativeMarginFails ==
    (IsCall("create_speed_map") /\ call.safety_margin < 0)
        => call.res.status # "ok"

\* C10 (as stated): the verdict is safe exactly if the minimum sampled
\* clearance reaches the threshold supplied by the caller.
C10_SafeIffSuppliedThreshold ==
    (IsCall("calculate_safety_metrics") /\ call.res.status = "ok")
        => (call.res.metrics.safe
              <=> call.res.metrics.min_clearance >= call.minSafeClearance)

\* C10 (amended): the verdict is safe exactly if every in-grid path point has
\* clearance >= 3.0 voxels, the fixed threshold, whatever the caller wants.
C10_SafeIffThreeVoxels ==
    (IsCall("calculate_safety_metrics") /\ call.res.status = "ok")
        => (call.res.metrics.safe
              <=> \A k \in 1..Len(call.path) :
                     InGrid(call.path[k]) => distance_map[call.path[k]] >= 300)

\* C10 witness: a verdict safe although the caller's threshold lies above the
\* minimum clearance of the path.
C10_Witness ==
    /\ IsCall("calculate_safety_metrics")
    /\ call.res.status = "ok"
    /\ call.res.metrics.safe
    /\ call.minSafeClearance > call.res.metrics.min_clearance

\* the in-grid points among the first k points of a path, and the sum of
\* their clearances
InsideUpTo(path, k) == {j \in 1..k : InGrid(path[j])}

RECURSIVE ClearanceSum(_, _)
ClearanceSum(path, k) ==
    IF k = 0 THEN 0
    ELSE ClearanceSum(path, k - 1)
         + (IF InGrid(path[k]) THEN distance_map[path[k]] ELSE 0)

\* C11: the clearance statistics are taken over exactly the in-grid path
\* points: minimum, maximum and mean of their clearances; a point outside the
\* grid contributes no value.
C11_OutOfGridExcluded ==
    (IsCall("calculate_safety_metrics") /\ call.res.status = "ok")
        => LET inside == InsideUpTo(call.path, Len(call.path))
               values == {distance_map[call.path[k]] : k \in inside}
           IN /\ inside # {}
              /\ call.res.metrics.min_clearance = SetMin(values)
              /\ call.res.metrics.max_clearance = SetMax(values)
              /\ call.res.metrics.avg_clearance
                    = ClearanceSum(call.path, Len(call.path)) \div Cardinality(inside)

\* C11 witness: statistics of a path with a point outside the grid whose
\* minimum is positive and whose mean is that of the in-grid points alone.
C11_Witness ==
    /\ IsCall("calculate_safety_metrics")
    /\ call.res.status = "ok"
    /\ \E k \in 1..Len(call.path) : ~InGrid(call.path[k])
    /\ call.res.metrics.min_clearance > 0
    /\ call.res.metrics.avg_clearance = call.res.metrics.max_clearance

\* C12: for a margin >= 0 every value of the speed map lies in [0.1, 1.0],
\* hence is strictly positive and at most 1.
C12_CostWithinRange ==
    (IsCall("create_speed_map") /\ call.safety_margin >= 0 /\ call.res.status = "ok")
        => \A v \in Voxels :
              /\ FloatGeq(call.res.field[v], CLIP_LO)
              /\ FloatGeq(CLIP_HI, call.res.field[v])

\* C13: within one speed map a voxel of larger or equal clearance has a
\* larger or equal speed.
C13_CostMonotoneInClearance ==
    (IsCall("create_speed_map") /\ call.res.status = "ok")
        => \A a \in Voxels, b \in Voxels :
              distance_map[a] >= distance_map[b]
                  => FloatGeq(call.res.field[a], call.res.field[b])

\* C14: with the distance map fixed, a larger margin (0 <= m1 <= m2) makes
\* the speed of no voxel smaller.
C14_CostMonotoneInMargin ==
    (/\ IsCall("create_speed_map twice")
     /\ 0 <= call.safety_margin
     /\ call.safety_margin <= call.wider_margin)
        => \A v \in Voxels : ~FloatLess(call.wider_res.field[v], call.res.field[v])

\* C14 witness: two margins 0 <= m1 < m2 on one distance map and a voxel
\* whose speed is strictly larger under m2.
C14_Witness ==
    /\ IsCall("create_speed_map twice")
    /\ 0 <= call.safety_margin
    /\ call.safety_margin < call.wider_margin
    /\ \E v \in Voxels : FloatLess(call.res.field[v], call.wider_res.field[v])

\* C15: for a grid with at least one obstacle voxel the distance map covers
\* the grid, is exactly 0 on every obstacle voxel and, on every free voxel,
\* is the (positive) Euclidean distance to the nearest obstacle voxel, here to
\* the precision 1/Scale.
C15_ClearanceIsEuclidean ==
    (/\ IsCall("compute_distance_transform")
     /\ call.res.status = "ok"
     /\ \E b \in Voxels : call.grid[b] > 0)
        => /\ DOMAIN call.res.field = Voxels
           /\ \A v \in Voxels :
                IF call.grid[v] > 0 THEN call.res.field[v] = 0
                ELSE /\ call.res.field[v] > 0
                     /\ \E b \in Voxels :
                          /\ call.grid[b] > 0
                          /\ \A c \in Voxels :
                                call.grid[c] > 0 => Dist2(v, b) <= Dist2(v, c)
                          /\ call.res.field[v] * call.res.field[v]
                                <= Dist2(v, b) * Scale * Scale
                          /\ Dist2(v, b) * Scale * Scale
                                < (call.res.field[v] + 1) * (call.res.field[v] + 1)

\* C15 witness: a distance map with a free voxel diagonal to its nearest
\* obstacle voxel (its clearance is no whole number of voxels).
C15_Witness ==
    /\ IsCall("compute_distance_transform")
    /\ \E b \in Voxels : call.grid[b] > 0
    /\ \E v \in Voxels : call.grid[v] = 0 /\ call.res.field[v] % Scale # 0

\* C16: the arrival time at the source voxel is exactly 0; plan_path_fmm
\* returns the arrival time at end_point, so this is the travel time of a
\* plan whose end point is its start point.
C16_SourceTimeZero ==
    (/\ IsCall("plan_path_fmm")
     /\ call.res.status = "ok"
     /\ InGrid(call.start_point)
     /\ call.end_point = call.start_point)
        => call.res.total_time = 0

\* travel_time[p] for every point p of a path, in path order
TimesAlong(T, path) == [k \in 1..Len(path) |-> T[WrapPoint(path[k])]]

NonDecreasing(q) == \A k \in 1..(Len(q) - 1) : q[k + 1] >= q[k]

\* C17: the arrival times sampled at the points of the returned path, taken
\* from the target to the source, never fall from one point to the next.
C17_TimeNonDecreasingAlongPath ==
    (IsCall("plan_path_fmm") /\ call.res.status = "ok")
        => NonDecreasing(TimesAlong(ArrivalTimes,
                                    call.res.path))

\* the state in which the descent loop of a plan from source s to target e
\* over the travel times T ends
LoopEnd(T, s, e) ==
    DescendLoop(T, s, FloatPoint(e), <<e>>, 0)

\* plan_path_fmm came back with a path (no exception, not (None, None))
Returned(res) == res.status \notin {"None", "IndexError"}

\* C18: path extraction ends, after at most max_iterations iterations: the
\* returned path has at most max_iterations + 1 points.
C18_PathWithinBudget ==
    (IsCall("plan_path_fmm") /\ call.res.status = "ok")
        => Len(call.res.path) <= max_iterations + 1

\* C18 witness: an extraction that used up the whole iteration budget.
C18_Witness ==
    /\ IsCall("plan_path_fmm")
    /\ call.res.status = "ok"
    /\ Len(call.res.path) = max_iterations + 1

\* C19: an extraction that stops before it reached the source (zero
\* gradient, out of bounds, or budget used up) returns its partial path with
\* an incomplete flag, unlike one that reached the source.
C19_EarlyStopIsFlagged ==
    (/\ IsCall("plan_path_fmm")
     /\ Returned(call.res)
     /\ LoopEnd(ArrivalTimes,
                call.start_point, call.end_point).stop # "reached")
        => call.res.status = "IncompletePath"

\* C20: the first call of plan_path_fmm leaves in the speed map array the
\* values it was given, and a second call on that array with the same source
\* and target, in which skfmm.travel_time completes or raises as in the
\* first, returns the same path and travel time and leaves the array as it
\* was as well.
C20_PlanIsDeterministic ==
    IsCall("plan_path_fmm again")
        => /\ call.first.speed_map = create_speed_map(distance_map, SAFETY_MARGIN_MM).field
           /\ call.fmm_raises = call.first_raises
                 => /\ call.res.status = call.first.status
                    /\ call.res.path = call.first.path
                    /\ call.res.total_time = call.first.total_time
                    /\ speed_map = call.first.speed_map

\* C20 witness: two calls in which the solve completed, the second on the
\* array the first left behind, that both returned the same path of several
\* points.
C20_Witness ==
    /\ IsCall("plan_path_fmm again")
    /\ ~call.fmm_raises /\ ~call.first_raises
    /\ call.res.status = "ok"
    /\ Len(call.res.path) >= 3
    /\ call.res.path = call.first.path
    /\ speed_map = call.first.speed_map

\* C24: with a target inside the grid, every point of the returned path lies
\* inside the grid; a descent that left the grid stored one point per
\* completed iteration and none for the position outside.
C24_PathInsideGrid ==
    (/\ IsCall("plan_path_fmm")
     /\ call.res.status = "ok"
     /\ InGrid(call.end_point))
        => /\ \A k \in 1..Len(call.res.path) : InGrid(call.res.path[k])
           /\ LET end == LoopEnd(ArrivalTimes,
                                 call.start_point, call.end_point)
              IN end.stop = "out of bounds"
                    => /\ Len(call.res.path) = end.it + 1
                       /\ Outside(end.current)

\* C24 witness: a descent from a target inside the grid that stored several
\* points and then stopped because its next step left the grid.
C24_Witness ==
    /\ IsCall("plan_path_fmm")
    /\ call.res.status = "ok"
    /\ InGrid(call.end_point)
    /\ Len(call.res.path) >= 2
    /\ LoopEnd(ArrivalTimes,
               call.start_point, call.end_point).stop = "out of bounds"

\* C25: the returned path starts with the target, and two consecutive points
\* of it differ by at most 1 on every axis.
C25_ConsecutivePointsAdjacent ==
    (IsCall("plan_path_fmm") /\ call.res.status = "ok")
        => /\ call.res.path[1] = call.end_point
           /\ \A k \in 1..(Len(call.res.path) - 1) : \A i \in Axes :
                 call.res.path[k + 1][i] - call.res.path[k][i] \in -1..1

\* C25 witness: a returned path of several points that moves from one voxel
\* to a neighbouring one.
C25_Witness ==
    /\ IsCall("plan_path_fmm")
    /\ call.res.status = "ok"
    /\ \E k \in 1..(Len(call.res.path) - 1) :
          call.res.path[k + 1] # call.res.path[k]

\* C26: no point selection, planning query, reset or slice change modifies
\* the segmentation grid, the clearance field or the cost field of the
\* session.
C26_FieldsNeverModified == [][UNCHANGED fields]_vars

\* C26 witness: a session after a planning query that found a path, a reset
\* and a slice change, whose fields are those computed at its creation.
C26_Witness ==
    /\ handled = "on_key"
    /\ Empty
    /\ computed_path # None
    /\ current_slice # NZ \div 2
    /\ distance_map = compute_distance_transform(segmentation).field
    /\ speed_map = create_speed_map(distance_map, SAFETY_MARGIN_MM).field

\* C30: after any key presses and clicks, current_slice is within
\* 0 .. shape[2] - 1 and a stored start or end point lies inside the grid on
\* all three axes; only a click that on_click accepts (in the axial view,
\* within the x/y bounds) changes start point, end point, path or metrics.
C30_SliceAndPointsInGrid ==
    /\ [](/\ 0 <= current_slice /\ current_slice <= NZ - 1
          /\ start_point # None => InGrid(start_point)
          /\ end_point # None => InGrid(end_point))
    /\ [][<<start_point, end_point, computed_path, computed_metrics>>'
              # <<start_point, end_point, computed_path, computed_metrics>>
           => Selection]_vars

\* C30 witness: a start point picked on the lowest slice and an end point
\* picked at the far x edge of the highest slice.
C30_Witness ==
    /\ start_point # None
    /\ end_point = <<NX - 1, 0, NZ - 1>>
    /\ start_point[3] = 0
    /\ current_slice = NZ - 1

\* ------------------------------------------------------------------------
\* sancturary_spacings.py: selective dimension-wise resampling.  Spacings
\* are in units of 1/SpacingScale mm; zoom factors are float64
\* ------------------------------------------------------------------------
SpacingScale == 1000

SPACING_THRESHOLD_MM == SpacingScale

\* atol=0.01 of the np.allclose and np.isclose calls
CLOSE_ATOL == 10

\* 1 / rtol for numpy's default rtol=1e-05
CLOSE_RTOL_INV == 100000

\* a spacing of the model, in units of 1/SpacingScale mm, as the float64 the
\* code holds
SpacingFloat(spacing) == FromRatio(spacing, SpacingScale)

\* np.isclose(a, b, atol=0.01) of two float64: |a - b| <= atol + rtol * |b|
IsClose(a, b) ==
    ~FLess(FAdd(FromRatio(CLOSE_ATOL, SpacingScale),
                FMul(FDiv(FromInt(1), FromInt(CLOSE_RTOL_INV)), FAbs(b))),
           FAbs(FSub(a, b)))

\* np.allclose(zoom_factors, 1.0, atol=0.01)
AllClose(zoom_factors) ==
    \A i \in 1..3 : IsClose(zoom_factors[i], FromInt(1))

\* the zoom factor of one dimension, a float64: dim_spacing / threshold if
\* the dimension exceeds the threshold, 1.0 otherwise
ZoomFactor(dim_spacing, threshold) ==
    IF dim_spacing > threshold
    THEN FDiv(SpacingFloat(dim_spacing), SpacingFloat(threshold))
    ELSE FromInt(1)

TargetSpacing(dim_spacing, threshold) ==
    IF dim_spacing > threshold THEN threshold ELSE dim_spacing

calculate_selective_zoom_factors(original_spacing, threshold) ==
    LET Result(zoom_factors) ==
            [zoom_factors     |-> zoom_factors,
             target_spacing   |-> <<TargetSpacing(original_spacing[1], threshold),
                                    TargetSpacing(original_spacing[2], threshold),
                                    TargetSpacing(original_spacing[3], threshold)>>,
             needs_resampling |-> ~AllClose(zoom_factors)]
    IN Result(Triple([i \in 1..3 |-> ZoomFactor(original_spacing[i], threshold)]))

\* the length of column i of the new affine: the unit direction of the
\* original column times the target spacing
NewColumn(original, target) ==
    (((original * SpacingScale) \div original) * target) \div SpacingScale

\* get_spacing_from_affine(create_new_affine(...)) of an affine whose
\* columns have the lengths original_spacing
create_new_affine(original_spacing, target_spacing) ==
    <<NewColumn(original_spacing[1], target_spacing[1]),
      NewColumn(original_spacing[2], target_spacing[2]),
      NewColumn(original_spacing[3], target_spacing[3])>>

\* the action taken and the voxel spacing of the file written to output_path
process_file_to_sanctuary(original_spacing, threshold) ==
    LET z == calculate_selective_zoom_factors(original_spacing, threshold)
    IN IF ~z.needs_resampling
       THEN [action |-> "COPIED", target_spacing |-> z.target_spacing,
             spacing |-> original_spacing]
       ELSE [action |-> "RESAMPLED", target_spacing |-> z.target_spacing,
             spacing |-> create_new_affine(original_spacing, z.target_spacing)]

\* voxel spacings of the input files, in mm * SpacingScale:
\* 0.5, 1.0, 1.005, 1.02 and 3.0 mm
SpacingValues == {SpacingScale \div 2, SpacingScale, SpacingScale + 5,
                  SpacingScale + 20, 3 * SpacingScale}

CallSanctuary ==
    /\ call = NoCall
    /\ \E sx \in SpacingValues, sy \in SpacingValues, sz \in SpacingValues :
        call' = [fn |-> "process_file_to_sanctuary",
                 original_spacing |-> <<sx, sy, sz>>,
                 threshold |-> SPACING_THRESHOLD_MM,
                 res |-> process_file_to_sanctuary(<<sx, sy, sz>>,
                                                   SPACING_THRESHOLD_MM)]
    /\ UNCHANGED <<fields, session>>

\* C21: the file written by process_file_to_sanctuary has a spacing of at
\* most the threshold on every axis, and an axis whose input spacing is at
\* most the threshold keeps its input spacing.
C21_OutputWithinThreshold ==
    IsCall("process_file_to_sanctuary")
        => \A i \in 1..3 :
              /\ call.res.spacing[i] <= call.threshold
              /\ call.original_spacing[i] <= call.threshold
                    => call.res.spacing[i] = call.original_spacing[i]

\* ------------------------------------------------------------------------
\* Uni_Cleaner.py: check_vertebrae_ratio
\* ------------------------------------------------------------------------
\* the threshold 66.67 of the cervical percentage, in 1/100 percent
MIN_CERVICAL_PERCENT == 6667

IsCervical(l) == 1 <= l /\ l <= 7

IsThoracic(l) == 8 <= l /\ l <= 19

\* list(unique_labels): the labels of a segmentation in increasing order
RECURSIVE SortedList(_)
SortedList(S) ==
    IF S = {} THEN <<>> ELSE <<SetMin(S)>> \o SortedList(S \ {SetMin(S)})

\* cervical_percentage is (cervical_count / total_count) * 100; it is kept in
\* 1/100 percent, and compared with 66.67 exactly
check_vertebrae_ratio(labels) ==
    LET cervical_count == Len(SelectSeq(labels, IsCervical))
        thoracic_count == Len(SelectSeq(labels, IsThoracic))
        total_count    == cervical_count + thoracic_count
    IN IF total_count = 0
       THEN [is_valid |-> FALSE, cervical_count |-> 0, thoracic_count |-> 0,
             cervical_percentage |-> 0]
       ELSE [is_valid |-> cervical_count * 10000 >= MIN_CERVICAL_PERCENT * total_count,
             cervical_count |-> cervical_count,
             thoracic_count |-> thoracic_count,
             cervical_percentage |-> (cervical_count * 10000) \div total_count]

\* label lists of segmentations: C1 up to some cervical vertebra, T1 up to
\* some thoracic vertebra, with or without a label beyond T12
RatioLabels ==
    {SortedList((1..c) \cup (8..(7 + t)) \cup e) :
        c \in 0..7, t \in 0..12, e \in {{}, {20}}}

CallRatio ==
    /\ call = NoCall
    /\ \E labels \in RatioLabels :
        call' = [fn |-> "check_vertebrae_ratio", labels |-> labels,
                 res |-> check_vertebrae_ratio(labels)]
    /\ UNCHANGED <<fields, session>>

\* the labels of the list q that lie in lo..hi
CountIn(q, lo, hi) == Cardinality({i \in 1..Len(q) : lo <= q[i] /\ q[i] <= hi})

\* C22: with at least one vertebra, check_vertebrae_ratio returns is_valid
\* exactly if the cervical labels (1-7) are at least 2/3 of the cervical and
\* thoracic (8-19) labels; with no vertebra it returns is_valid = false.
C22_ValidIffTwoThirdsCervical ==
    IsCall("check_vertebrae_ratio")
        => LET c == CountIn(call.labels, 1, 7)
               t == CountIn(call.labels, 8, 19)
           IN IF c + t = 0 THEN ~call.res.is_valid
              ELSE call.res.is_valid <=> (3 * c >= 2 * (c + t))

\* ------------------------------------------------------------------------
\* accept_all_cervical.py: meets_cervical_criteria
\* ------------------------------------------------------------------------
CERVICAL_LABELS == 1..7

THORACIC_LABELS == 8..10

\* "at least 3 cervical"
MIN_CERVICAL == 3

\* the verdict of meets_cervical_criteria and what its reason is about
meets_cervical_criteria(labels) ==
    IF labels = {} THEN [accepted |-> FALSE, reason |-> "No labels found"]
    ELSE LET cervical_present == labels \cap CERVICAL_LABELS
             thoracic_present == labels \cap THORACIC_LABELS
             num_cervical     == Cardinality(cervical_present)
         IN IF num_cervical >= MIN_CERVICAL
            THEN [accepted |-> TRUE, reason |-> "cervical"]
            ELSE [accepted |-> FALSE, reason |-> "Insufficient cervical"]

\* label sets of segmentations: C1 up to some cervical vertebra and any of
\* T1, T2, T3, T4
CriteriaLabels == {(1..c) \cup t : c \in 0..7, t \in SUBSET (8..11)}

CallCriteria ==
    /\ call = NoCall
    /\ \E labels \in CriteriaLabels :
        call' = [fn |-> "meets_cervical_criteria", labels |-> labels,
                 res |-> meets_cervical_criteria(labels)]
    /\ UNCHANGED <<fields, session>>

\* C23: meets_cervical_criteria accepts a label set only if it has at least
\* 3 cervical labels, no label above 10 (T3), and its thoracic labels are
\* sequential from T1 (T2 needs T1; T3 needs T1 and T2).
C23_AcceptedMeetsPreChecks ==
    (IsCall("meets_cervical_criteria") /\ call.res.accepted)
        => /\ Cardinality(call.labels \cap (1..7)) >= 3
           /\ \A l \in call.labels : l <= 10
           /\ 9 \in call.labels => 8 \in call.labels
           /\ 10 \in call.labels => {8, 9} \subseteq call.labels

\* ------------------------------------------------------------------------
\* check_resolution.py: purge_and_renumber_dataset.  A folder maps each file
\* name to its content: the case number the file had at the start, NoFile
\* where there is no such file.  <<"PREFIX", k>> is PREFIX_00k_0000.nii.gz in
\* clean_volumes and PREFIX_00k.nii.gz in clean_labels, <<"TEMP", k>> the
\* TEMP_ name of case 00k
\* ------------------------------------------------------------------------
MaxCase == 3

Cases == 1..MaxCase

\* 0.625 mm, in 1/1000 mm
SLICE_THICKNESS_THRESHOLD_MM == 625

\* slice thicknesses of the volumes, in 1/1000 mm
Thicknesses == {500, SLICE_THICKNESS_THRESHOLD_MM, 1000}

NoFile == 0

FileNames == {"PREFIX", "TEMP"} \X Cases

\* a folder holding the files PREFIX_00k of the cases k of present
Folder(present) ==
    [name \in FileNames |->
        IF name[1] = "PREFIX" /\ name[2] \in present THEN name[2] ELSE NoFile]

\* Path.exists()
Exists(folder, name) == folder[name] # NoFile

\* Path.unlink()
Unlink(folder, name) ==
    [n \in FileNames |-> IF n = name THEN NoFile ELSE folder[n]]

\* shutil.move(src, dst) of a file: a file already at dst is replaced
Move(folder, src, dst) ==
    IF src = dst THEN folder
    ELSE [n \in FileNames |-> IF n = dst THEN folder[src]
                               ELSE IF n = src THEN NoFile ELSE folder[n]]

MoveIfExists(folder, src, dst) ==
    IF Exists(folder, src) THEN Move(folder, src, dst) ELSE folder

\* df['slice_thickness'] > SLICE_THICKNESS_THRESHOLD_MM, with >= for >
IsThick_inclusive(slice_thickness) ==
    slice_thickness >= SLICE_THICKNESS_THRESHOLD_MM

\* df['slice_thickness'] > SLICE_THICKNESS_THRESHOLD_MM
IsThick(slice_thickness) == slice_thickness > SLICE_THICKNESS_THRESHOLD_MM

\* sorted(vol_folder.glob(...)): the case numbers of the volumes, in order
vol_files(volumes) ==
    SortedList({k \in Cases : Exists(volumes, <<"PREFIX", k>>)})

\* step 1 for one row: its volume and its segmentation are deleted
DeleteRow(fs, case_num) ==
    [volumes |-> IF Exists(fs.volumes, <<"PREFIX", case_num>>)
                 THEN Unlink(fs.volumes, <<"PREFIX", case_num>>) ELSE fs.volumes,
     labels  |-> IF Exists(fs.labels, <<"PREFIX", case_num>>)
                 THEN Unlink(fs.labels, <<"PREFIX", case_num>>) ELSE fs.labels]

\* step 1: the loop over the rows to remove
RECURSIVE DeleteRows(_, _)
DeleteRows(fs, rows) ==
    IF rows = <<>> THEN fs
    ELSE DeleteRows(DeleteRow(fs, Head(rows)), Tail(rows))

\* a volume and its segmentation move from one name to another, each if it
\* exists
MovePair(fs, src, dst) ==
    [volumes |-> MoveIfExists(fs.volumes, src, dst),
     labels  |-> MoveIfExists(fs.labels, src, dst)]

\* step 2: every row to keep moves to its temporary name
RECURSIVE TempRows(_, _)
TempRows(fs, rows) ==
    IF rows = <<>> THEN fs
    ELSE TempRows(MovePair(fs, <<"PREFIX", Head(rows)>>, <<"TEMP", Head(rows)>>),
                  Tail(rows))

\* step 3: the temporary names move to the numbers new_idx, new_idx + 1, ...
RECURSIVE FinalRows(_, _, _)
FinalRows(fs, temp_mapping, new_idx) ==
    IF temp_mapping = <<>> THEN fs
    ELSE FinalRows(MovePair(fs, <<"TEMP", Head(temp_mapping)>>,
                            <<"PREFIX", new_idx>>),
                   Tail(temp_mapping), new_idx + 1)

\* the two folders after the run, and after its deletion step; thickness
\* gives the slice thickness of each volume
purge_and_renumber_dataset(fs, thickness, dry_run) ==
    LET files  == vol_files(fs.volumes)
        Remove(k) == IsThick(thickness[k])
        Keep(k)   == ~IsThick(thickness[k])
        files_to_remove == SelectSeq(files, Remove)
        files_to_keep   == SelectSeq(files, Keep)
        deleted == DeleteRows(fs, files_to_remove)
    IN IF files = <<>> \/ dry_run
       THEN [volumes |-> fs.volumes, labels |-> fs.labels,
             after_delete |-> fs, files_to_keep |-> files_to_keep]
       ELSE LET final == FinalRows(TempRows(deleted, files_to_keep),
                                   files_to_keep, 1)
            IN [volumes |-> final.volumes, labels |-> final.labels,
                after_delete |-> deleted, files_to_keep |-> files_to_keep]

\* a dataset: volumes, segmentations with and without a volume, and the
\* slice thickness of each volume
CallPurge ==
    /\ call = NoCall
    /\ \E vs \in SUBSET Cases, ls \in SUBSET Cases, dry_run \in BOOLEAN :
         \E thickness \in [vs -> Thicknesses] :
            call' = [fn |-> "purge_and_renumber_dataset",
                     volumes |-> Folder(vs), labels |-> Folder(ls),
                     thickness |-> thickness, DRY_RUN |-> dry_run,
                     res |-> purge_and_renumber_dataset(
                                 [volumes |-> Folder(vs), labels |-> Folder(ls)],
                                 thickness, dry_run)]
    /\ UNCHANGED <<fields, session>>

\* the contents of the files of a folder
Contents(folder) == {folder[name] : name \in FileNames} \ {NoFile}

\* the cases of the call's dataset whose volume has a slice thickness above
\* the threshold, and the others in sorted order
ThickCases ==
    {k \in DOMAIN call.thickness : call.thickness[k] > SLICE_THICKNESS_THRESHOLD_MM}

KeptCases == SortedList(DOMAIN call.thickness \ ThickCases)

\* C27: after a live run the volumes above the threshold and their
\* segmentations are gone, the other volumes are PREFIX_001 .. PREFIX_n in
\* their sorted order, and the segmentation of each of them carries its
\* volume's number; a dry run changes no file.
C27_PurgedAndRenumbered ==
    IsCall("purge_and_renumber_dataset")
        => IF call.DRY_RUN
           THEN call.res.volumes = call.volumes /\ call.res.labels = call.labels
           ELSE /\ \A name \in FileNames :
                     call.res.volumes[name]
                         = IF name[1] = "PREFIX" /\ name[2] <= Len(KeptCases)
                           THEN KeptCases[name[2]] ELSE NoFile
                /\ \A k \in 1..Len(KeptCases) :
                     Exists(call.labels, <<"PREFIX", KeptCases[k]>>)
                        => call.res.labels[<<"PREFIX", k>>] = KeptCases[k]
                /\ Contents(call.res.labels) \cap ThickCases = {}

\* C27 witness: a live run that deleted a thick volume and its segmentation
\* and gave a kept volume and its segmentation a new number.
C27_Witness ==
    /\ IsCall("purge_and_renumber_dataset")
    /\ ~call.DRY_RUN
    /\ \E k \in ThickCases : Exists(call.labels, <<"PREFIX", k>>)
    /\ \E k \in 1..Len(KeptCases) :
          /\ KeptCases[k] # k
          /\ call.res.volumes[<<"PREFIX", k>>] = KeptCases[k]
          /\ call.res.labels[<<"PREFIX", k>>] = KeptCases[k]

\* C28: renumbering overwrites no file: every file in clean_volumes and
\* clean_labels after the deletion step, a segmentation without volume
\* included, is still there with its content after the renumbering.
C28_RenumberingLosesNoFile ==
    (IsCall("purge_and_renumber_dataset") /\ ~call.DRY_RUN)
        => /\ Contents(call.res.after_delete.volumes) \subseteq Contents(call.res.volumes)
           /\ Contents(call.res.after_delete.labels) \subseteq Contents(call.res.labels)

\* ------------------------------------------------------------------------
\* rename_for_v2.py: get_file_pairs, generate_new_names and rename_files.
\* A base name is <<prefix, number>>: <<"CVPP", 2>> is CVPP_002 and
\* <<"case", 0>> is case_0.  A file is <<base name, extension>>: in labelsTr
\* it is <base><extension>, in imagesTr <base>_0000<extension>.  A folder
\* maps each file to its content, the file it was at the start
\* ------------------------------------------------------------------------
BaseNames == ({"CVPP"} \X (1..MaxCase)) \cup ({"case"} \X (0..MaxCase))

Files == BaseNames \X {".nii.gz", ".nii", ".gz"}

NoContent == <<<<"none", 0>>, "">>

\* a folder with the given files, each holding its own content
RenameFolder(present) ==
    [file \in Files |-> IF file \in present THEN file ELSE NoContent]

\* Path.exists()
Present(folder, file) == folder[file] # NoContent

\* Path.suffix: the last extension of the name
Suffix(file) == IF file[2] = ".nii.gz" THEN ".gz" ELSE file[2]

\* the number re.findall finds in the base name
extract_case_number(base_name) == base_name[2]

\* what the order of two paths of one folder and one extension depends on:
\* the letters of the prefix (their ord()), folded to lower case where paths
\* compare without case (Windows), then the digits, which have one width per
\* prefix
PathKey(file, fold_case) ==
    LET Letters(prefix) == IF prefix = "CVPP" THEN <<67, 86, 80, 80>>
                           ELSE <<99, 97, 115, 101>>
        Lower(c) == IF 65 <= c /\ c <= 90 THEN c + 32 ELSE c
    IN [k \in 1..5 |-> IF k = 5 THEN file[1][2]
                       ELSE IF fold_case THEN Lower(Letters(file[1][1])[k])
                       ELSE Letters(file[1][1])[k]]

\* sorted(paths): the paths in the order of their keys
SortedPaths(paths, fold_case) ==
    LET Less(a, b) == \E k \in 1..5 :
                          a[k] < b[k] /\ \A m \in 1..(k - 1) : a[m] = b[m]
    IN [r \in 1..Cardinality(paths) |->
           CHOOSE f \in paths :
               Cardinality({g \in paths : Less(PathKey(g, fold_case),
                                                PathKey(f, fold_case))}) = r - 1]

\* sorted(folder.glob("*" + extension))
Glob(folder, extension, fold_case) ==
    SortedPaths({file \in Files : file[2] = extension /\ Present(folder, file)},
                fold_case)

\* lines 39-46: the image looked for: <base>_0000<suffix>, and for a label
\* .gz without it <base>_0000.nii.gz
ImageOf(images, label_file) ==
    IF Present(images, <<label_file[1], Suffix(label_file)>>)
          \/ Suffix(label_file) # ".gz"
    THEN <<label_file[1], Suffix(label_file)>>
    ELSE <<label_file[1], ".nii.gz">>

\* the labels *.nii.gz in sorted order, then the labels *.nii, each with its
\* image if that exists
get_file_pairs(images, labels, fold_case) ==
    LET Matched(label_file) == Present(images, ImageOf(images, label_file))
        Pair(label_file) == [image |-> ImageOf(images, label_file),
                             label |-> label_file,
                             base_name |-> label_file[1]]
        Pairs(label_files) == [k \in 1..Len(label_files) |-> Pair(label_files[k])]
    IN Pairs(SelectSeq(Glob(labels, ".nii.gz", fold_case)
                           \o Glob(labels, ".nii", fold_case),
                       Matched))

\* sorted(pairs, key=extract_case_number) is stable: pairs of one case number
\* keep their order
SortKey(pairs, k) ==
    extract_case_number(pairs[k].base_name) * (Len(pairs) + 1) + k

SortedPairs(pairs) ==
    [r \in 1..Len(pairs) |->
        pairs[CHOOSE k \in 1..Len(pairs) :
                 Cardinality({m \in 1..Len(pairs) :
                                 SortKey(pairs, m) < SortKey(pairs, k)}) = r - 1]]

\* f"CVPP_{idx:03d}"
NewBase(idx) == <<"CVPP", idx>>

\* rename_map: the files of each pair and its new base name
generate_new_names(pairs) ==
    LET Named(sorted_pairs) ==
            [idx \in 1..Len(sorted_pairs) |->
                [old_image |-> sorted_pairs[idx].image,
                 old_label |-> sorted_pairs[idx].label,
                 new_base  |-> NewBase(idx),
                 old_base  |-> sorted_pairs[idx].base_name]]
    IN Named(SortedPairs(pairs))

\* Path.rename(dst): replaces says whether the platform replaces a file that
\* is already at dst (POSIX) or raises FileExistsError (Windows); a missing
\* source raises too
RenameRaises(folder, src, dst, replaces) ==
    \/ ~Present(folder, src)
    \/ src # dst /\ Present(folder, dst) /\ ~replaces

Rename(folder, src, dst, replaces) ==
    IF RenameRaises(folder, src, dst, replaces) \/ src = dst THEN folder
    ELSE [file \in Files |-> IF file = dst THEN folder[src]
                             ELSE IF file = src THEN NoContent
                             ELSE folder[file]]

\* the body of the loop for one item: the image, then the label, each to
\* the new base name with the suffix of the old name (lines 147 and 152); an
\* exception of the first rename skips the second
RenameItem(fs, item, replaces) ==
    LET NewName(old) == <<item.new_base, Suffix(old)>>
    IN IF RenameRaises(fs.images, item.old_image, NewName(item.old_image),
                       replaces)
       THEN fs
       ELSE [images |-> Rename(fs.images, item.old_image,
                               NewName(item.old_image), replaces),
             labels |-> Rename(fs.labels, item.old_label,
                               NewName(item.old_label), replaces)]

RECURSIVE RenameItems(_, _, _)
RenameItems(fs, rename_map, replaces) ==
    IF rename_map = <<>> THEN fs
    ELSE RenameItems(RenameItem(fs, Head(rename_map), replaces),
                     Tail(rename_map), replaces)

rename_files(fs, rename_map, dry_run, replaces) ==
    IF dry_run THEN fs ELSE RenameItems(fs, rename_map, replaces)

\* main: the matched pairs of imagesTr and labelsTr are renamed, on a
\* dataset of up to MaxCase labels *.nii.gz or *.nii, each with its image.
\* fold_case says whether paths compare without case (Windows) or with it
\* (POSIX)
CallRename ==
    /\ call = NoCall
    /\ \E present \in SUBSET (BaseNames \X {".nii.gz", ".nii"}),
          dry_run \in BOOLEAN, replaces \in BOOLEAN, fold_case \in BOOLEAN :
        /\ present # {}
        /\ Cardinality(present) <= MaxCase
        /\ call' = [fn |-> "rename_files",
                    images |-> RenameFolder(present),
                    labels |-> RenameFolder(present),
                    dry_run |-> dry_run, replaces |-> replaces,
                    fold_case |-> fold_case,
                    rename_map |-> generate_new_names(
                        get_file_pairs(RenameFolder(present),
                                       RenameFolder(present), fold_case)),
                    res |-> rename_files(
                        [images |-> RenameFolder(present),
                         labels |-> RenameFolder(present)],
                        generate_new_names(
                            get_file_pairs(RenameFolder(present),
                                           RenameFolder(present), fold_case)),
                        dry_run, replaces)]
    /\ UNCHANGED <<fields, session>>

\* the files of a folder
FilesIn(folder) == {file \in Files : Present(folder, file)}

\* C29: rename_files with dry_run = False loses no file: there are as many
\* image files and as many label files after the run as before.
C29_RenameLosesNoFile ==
    (IsCall("rename_files") /\ ~call.dry_run)
        => /\ Cardinality(FilesIn(call.res.images))
                 = Cardinality(FilesIn(call.images))
           /\ Cardinality(FilesIn(call.res.labels))
                 = Cardinality(FilesIn(call.labels))

\* ------------------------------------------------------------------------
\* The scripts run on their own, each once per behaviour, next to a session
\* over a volume without bone
\* ------------------------------------------------------------------------
InitTools == Init /\ segmentation = GridEmpty

NextTools == CallSanctuary \/ CallRatio \/ CallCriteria \/ CallPurge
                 \/ CallRename

SpecTools == InitTools /\ [][NextTools]_vars

====
